---- MODULE Spec2Model ----
(***************************************************************************)
(* Model of topohedral-tracing (src/src/lib.rs): the TOPO_LOG filter       *)
(* parser (TopoHedralLogger::new), the enablement decision                 *)
(* (TopoHedralLogger::enabled), and the global LOGGER mutex with the two   *)
(* entry points init() and topo_log().                                     *)
(*                                                                         *)
(* Text is a sequence of atoms.  An atom is the separator ",", the         *)
(* separator "=", or a separator-free word; no word of the alphabet is a   *)
(* concatenation of other words, so two texts are equal exactly when their *)
(* atom sequences are equal, and split / contains / the level match act on *)
(* atom sequences as the Rust code acts on characters.                     *)
(***************************************************************************)
EXTENDS Integers, Sequences, FiniteSets, TLC

VARIABLES env, LOGGER, lastRead, lock, pc, call, result, out, emitted, query

vars == <<env, LOGGER, lastRead, lock, pc, call, result, out, emitted, query>>

(***************************************************************************)
(* log::LevelFilter and log::Level, by their usize representation.         *)
(***************************************************************************)
Off == 0
Error == 1
Warn == 2
Info == 3
Debug == 4
Trace == 5

LevelFilter == {Off, Error, Warn, Info, Debug, Trace}
Level == {Error, Warn, Info, Debug, Trace}

(***************************************************************************)
(* Bounds of the model.                                                    *)
(***************************************************************************)
NumThreads == 2
MaxLines == 2
MaxEntries == 2

Threads == 1..NumThreads

(***************************************************************************)
(* Option<T>: None is the empty sequence, Some(x) the one-element sequence.*)
(***************************************************************************)
None == <<>>
Some(x) == <<x>>
Unwrap(o) == o[1]

(***************************************************************************)
(* The result of std::env::var("TOPO_LOG"), lib.rs lines 110-141.          *)
(***************************************************************************)
NotPresent == [res |-> "NotPresent", val |-> <<>>]
NotUnicode == [res |-> "NotUnicode", val |-> <<>>]
Ok(text) == [res |-> "Ok", val |-> text]

NoThread == 0

(***************************************************************************)
(* str::split(sep): the pieces between the separators, empty pieces kept;  *)
(* the empty text splits into one empty piece.                             *)
(***************************************************************************)
Contains(s, sep) == \E i \in 1..Len(s) : s[i] = sep

FirstIndex(s, sep) == CHOOSE i \in 1..Len(s) : s[i] = sep /\ \A j \in 1..(i-1) : s[j] # sep

RECURSIVE Split(_, _)
Split(s, sep) ==
    IF ~Contains(s, sep)
    THEN <<s>>
    ELSE LET i == FirstIndex(s, sep)
         IN  <<SubSeq(s, 1, i-1)>> \o Split(SubSeq(s, i+1, Len(s)), sep)

(***************************************************************************)
(* The match on peices[1], lib.rs lines 120-127.                           *)
(***************************************************************************)
MatchLevel(tok) ==
    CASE tok = <<"trace">> \/ tok = <<"5">> -> Trace
      [] tok = <<"debug">> \/ tok = <<"4">> -> Debug
      [] tok = <<"info">>  \/ tok = <<"3">> -> Info
      [] tok = <<"warn">>  \/ tok = <<"2">> -> Warn
      [] tok = <<"error">> \/ tok = <<"1">> -> Error
      [] OTHER -> Info

(***************************************************************************)
(* One entry of the configuration: target and level, lib.rs lines 114-131. *)
(***************************************************************************)
ParseEntry(key) ==
    IF Contains(key, "=")
    THEN LET peices == Split(key, "=")
         IN  [target |-> peices[1], level |-> MatchLevel(peices[2])]
    ELSE [target |-> key, level |-> Info]

(***************************************************************************)
(* HashMap::insert: the entry of the key is created or overwritten.        *)
(***************************************************************************)
Insert(filters, target, level) ==
    [k \in (DOMAIN filters) \cup {target} |-> IF k = target THEN level ELSE filters[k]]

(***************************************************************************)
(* The body of the for loop for one key, lib.rs lines 113-138.             *)
(***************************************************************************)
StepFirstWins(self, key) ==
    LET e == ParseEntry(key)
    IN  IF e.target = <<"all">>
        THEN [all |-> IF self.all = Off THEN e.level ELSE self.all, filters |-> self.filters]
        ELSE [all |-> self.all,
              filters |-> IF e.target \in DOMAIN self.filters
                          THEN self.filters
                          ELSE Insert(self.filters, e.target, e.level)]

Step(self, key) ==
    LET e == ParseEntry(key)
    IN  IF e.target = <<"all">>
        THEN [all |-> e.level, filters |-> self.filters]
        ELSE [all |-> self.all, filters |-> Insert(self.filters, e.target, e.level)]

RECURSIVE Fold(_, _)
Fold(self, targets) ==
    IF targets = <<>> THEN self ELSE Fold(Step(self, Head(targets)), Tail(targets))

EmptyFilters == [k \in {} |-> Off]

(***************************************************************************)
(* TopoHedralLogger::new, lib.rs lines 106-145.  val is the result of      *)
(* std::env::var("TOPO_LOG"): NotPresent, NotUnicode or a text.            *)
(***************************************************************************)
TopoHedralLogger_new_loud(val) ==
    IF val.res # "Ok"
    THEN [all |-> Info, filters |-> EmptyFilters]
    ELSE Fold([all |-> Off, filters |-> EmptyFilters], Split(val.val, ","))

TopoHedralLogger_new(val) ==
    IF val.res # "Ok"
    THEN [all |-> Off, filters |-> EmptyFilters]
    ELSE Fold([all |-> Off, filters |-> EmptyFilters], Split(val.val, ","))

(***************************************************************************)
(* TopoHedralLogger::enabled, lib.rs lines 150-159.                        *)
(***************************************************************************)
Max(a, b) == IF a >= b THEN a ELSE b

TopoHedralLogger_enabled_nomax(self, target, level) ==
    LET target_level == IF target \in DOMAIN self.filters
                        THEN self.filters[target]
                        ELSE self.all
    IN  level <= target_level

TopoHedralLogger_enabled(self, target, level) ==
    LET target_level == IF target \in DOMAIN self.filters
                        THEN self.filters[target]
                        ELSE self.all
    IN  level <= Max(target_level, self.all)

(***************************************************************************)
(* Inputs of the parser specification: every single entry built from the   *)
(* targets and level tokens below, and every text of at most MaxEntries    *)
(* entries joined by "," over a shorter list of entries.                   *)
(***************************************************************************)
EntryTargets == {<<>>, <<"all">>, <<"m">>, <<"n">>}

LevelTokens ==
    { <<>>, <<"trace">>, <<"5">>, <<"debug">>, <<"4">>, <<"info">>, <<"3">>,
      <<"warn">>, <<"2">>, <<"error">>, <<"1">>, <<"bogus">>, <<"debug", "5">>,
      <<"debug", "=", "bogus">>, <<"bogus", "=", "trace">> }

ShortTokens == { <<"debug">>, <<"1">> }

FullEntries == EntryTargets \cup { t \o <<"=">> \o k : t \in EntryTargets, k \in LevelTokens }

ShortEntries == EntryTargets \cup { t \o <<"=">> \o k : t \in EntryTargets, k \in ShortTokens }

RECURSIVE TextsOf(_)
TextsOf(n) ==
    IF n = 1
    THEN ShortEntries
    ELSE { x \o <<",">> \o e : x \in TextsOf(n - 1), e \in ShortEntries }

ParseInputs ==
    {NotPresent, NotUnicode}
        \cup { Ok(x) : x \in FullEntries }
        \cup { Ok(x) : x \in UNION { TextsOf(n) : n \in 1..MaxEntries } }

QueryTargets == EntryTargets

(***************************************************************************)
(* Inputs of the concurrent specification.                                 *)
(***************************************************************************)
EnvValues == { NotPresent, NotUnicode, Ok(<<"m", "=", "trace">>), Ok(<<"all", "=", "debug">>) }

CallTargets == { <<"m">>, <<"n">> }
CallLevels == { Error, Trace }
CallModules == { "app" }
CallLines == { 7 }
CallArgs == { "msg" }

NoCall == [target |-> <<>>, level |-> Off, module |-> "", line |-> 0, args |-> ""]

(***************************************************************************)
(* static LOGGER: Mutex<Option<Box<dyn log::Log>>> = Mutex::new(None),     *)
(* lib.rs line 95; every thread is outside the library.                    *)
(***************************************************************************)
CommonInit ==
    /\ LOGGER = None
    /\ lastRead = None
    /\ lock = NoThread
    /\ pc = [t \in Threads |-> "idle"]
    /\ call = [t \in Threads |-> NoCall]
    /\ result = [t \in Threads |-> "none"]
    /\ out = <<>>
    /\ emitted = 0
    /\ query = None

Init ==
    /\ env \in EnvValues
    /\ CommonInit

ParseInit ==
    /\ env \in ParseInputs
    /\ CommonInit

(***************************************************************************)
(* The parser specification: new() applied to the input, then enabled()    *)
(* applied to the logger it built.                                         *)
(***************************************************************************)
ApplyNew ==
    /\ LOGGER = None
    /\ LOGGER' = Some(TopoHedralLogger_new(env))
    /\ lastRead' = Some(env)
    /\ UNCHANGED <<env, lock, pc, call, result, out, emitted, query>>

ApplyEnabled(target, level) ==
    /\ LOGGER # None
    /\ query' = Some([target |-> target, level |-> level,
                      enabled |-> TopoHedralLogger_enabled(Unwrap(LOGGER), target, level)])
    /\ UNCHANGED <<env, LOGGER, lastRead, lock, pc, call, result, out, emitted>>

ParseNext ==
    \/ ApplyNew
    \/ \E target \in QueryTargets, level \in Level : ApplyEnabled(target, level)

ParseSpec == ParseInit /\ [][ParseNext]_vars

(***************************************************************************)
(* The concurrent specification.  Each thread is outside the library       *)
(* ("idle") or at a position of init() or topo_log():                      *)
(*   init_lock   waiting in LOGGER.lock(), line 177                        *)
(*   init_new    holds the guard, before line 178                          *)
(*   init_ret    holds the guard, lines 179-181                            *)
(*   log_lock    waiting in LOGGER.lock(), line 203                        *)
(*   log_match   holds the guard, before line 204                          *)
(*   log_print   inside eprintln!, line 163, before the record's text      *)
(*   log_newline inside eprintln!, line 163, before the line terminator    *)
(*   log_ret     holds the guard, at the end of topo_log, line 232         *)
(* stderr is unbuffered: eprintln! writes the text and the terminator as   *)
(* separate writes, so out is a sequence of chunks.                        *)
(***************************************************************************)
Holding(t) == pc[t] \in {"init_new", "init_ret", "log_match", "log_print", "log_newline", "log_ret"}

Undecided == { t \in Threads : pc[t] \in {"log_lock", "log_match"} }

(* std::env::set_var("TOPO_LOG", ..) or remove_var by the program, as in   *)
(* the test at line 358.                                                   *)
SetEnv(v) ==
    /\ v # env
    /\ env' = v
    /\ UNCHANGED <<LOGGER, lastRead, lock, pc, call, result, out, emitted, query>>

Call_init(t) ==
    /\ pc[t] = "idle"
    /\ pc' = [pc EXCEPT ![t] = "init_lock"]
    /\ result' = [result EXCEPT ![t] = "none"]
    /\ UNCHANGED <<env, LOGGER, lastRead, lock, call, out, emitted, query>>

(* let mut logger_guard = LOGGER.lock().unwrap(), line 177 *)
init_lock(t) ==
    /\ pc[t] = "init_lock"
    /\ lock = NoThread
    /\ lock' = t
    /\ pc' = [pc EXCEPT ![t] = "init_new"]
    /\ UNCHANGED <<env, LOGGER, lastRead, call, result, out, emitted, query>>

(* *logger_guard = Some(Box::new(TopoHedralLogger::new())), line 178 *)
init_install_merge(t) ==
    /\ pc[t] = "init_new"
    /\ LET fresh == TopoHedralLogger_new(env)
           old == IF LOGGER = None THEN EmptyFilters ELSE Unwrap(LOGGER).filters
       IN  LOGGER' = Some([all |-> fresh.all,
                           filters |-> [k \in (DOMAIN old) \cup (DOMAIN fresh.filters) |->
                                           IF k \in DOMAIN fresh.filters
                                           THEN fresh.filters[k] ELSE old[k]]])
    /\ lastRead' = Some(env)
    /\ pc' = [pc EXCEPT ![t] = "init_ret"]
    /\ UNCHANGED <<env, lock, call, result, out, emitted, query>>

init_install_take(t) ==
    /\ pc[t] = "init_new"
    /\ LOGGER' = None
    /\ lastRead' = Some(env)
    /\ pc' = [pc EXCEPT ![t] = "init_ret"]
    /\ UNCHANGED <<env, lock, call, result, out, emitted, query>>

init_install(t) ==
    /\ pc[t] = "init_new"
    /\ LOGGER' = Some(TopoHedralLogger_new(env))
    /\ lastRead' = Some(env)
    /\ pc' = [pc EXCEPT ![t] = "init_ret"]
    /\ UNCHANGED <<env, lock, call, result, out, emitted, query>>

(* log::set_max_level(..); Ok(()), lines 179-182; the guard is dropped *)
init_return(t) ==
    /\ pc[t] = "init_ret"
    /\ lock' = NoThread
    /\ result' = [result EXCEPT ![t] = "Ok"]
    /\ pc' = [pc EXCEPT ![t] = "idle"]
    /\ UNCHANGED <<env, LOGGER, lastRead, call, out, emitted, query>>

(* topo_log(target, level, module, line, args), line 202 *)
Call_topo_log(t, c) ==
    /\ pc[t] = "idle"
    /\ emitted + Cardinality(Undecided) < MaxLines
    /\ pc' = [pc EXCEPT ![t] = "log_lock"]
    /\ call' = [call EXCEPT ![t] = c]
    /\ result' = [result EXCEPT ![t] = "none"]
    /\ UNCHANGED <<env, LOGGER, lastRead, lock, out, emitted, query>>

(* let mut logger_guard = LOGGER.lock().unwrap(), line 203 *)
topo_log_lock_barging(t) ==
    /\ pc[t] = "log_lock"
    /\ lock' = t
    /\ pc' = [pc EXCEPT ![t] = "log_match"]
    /\ UNCHANGED <<env, LOGGER, lastRead, call, result, out, emitted, query>>

topo_log_lock(t) ==
    /\ pc[t] = "log_lock"
    /\ lock = NoThread
    /\ lock' = t
    /\ pc' = [pc EXCEPT ![t] = "log_match"]
    /\ UNCHANGED <<env, LOGGER, lastRead, call, result, out, emitted, query>>

(* if let Some(logger) = &mut *logger_guard { .. logger.log(..) },         *)
(* lines 204-231, up to the test of TopoHedralLogger::log, line 162        *)
topo_log_match_lazy(t) ==
    /\ pc[t] = "log_match"
    /\ IF LOGGER = None
       THEN /\ LOGGER' = Some(TopoHedralLogger_new(env))
            /\ pc' = [pc EXCEPT ![t] = "log_ret"]
            /\ UNCHANGED emitted
       ELSE /\ UNCHANGED LOGGER
            /\ IF TopoHedralLogger_enabled(Unwrap(LOGGER), call[t].target, call[t].level)
               THEN /\ pc' = [pc EXCEPT ![t] = "log_print"]
                    /\ emitted' = emitted + 1
               ELSE /\ pc' = [pc EXCEPT ![t] = "log_ret"]
                    /\ UNCHANGED emitted
    /\ UNCHANGED <<env, lastRead, lock, call, result, out, query>>

topo_log_match(t) ==
    /\ pc[t] = "log_match"
    /\ IF LOGGER = None
       THEN /\ pc' = [pc EXCEPT ![t] = "log_ret"]
            /\ UNCHANGED emitted
       ELSE IF TopoHedralLogger_enabled(Unwrap(LOGGER), call[t].target, call[t].level)
            THEN /\ pc' = [pc EXCEPT ![t] = "log_print"]
                 /\ emitted' = emitted + 1
            ELSE /\ pc' = [pc EXCEPT ![t] = "log_ret"]
                 /\ UNCHANGED emitted
    /\ UNCHANGED <<env, LOGGER, lastRead, lock, call, result, out, query>>

(* the match of lines 207-213 and Level::as_str *)
LogColor(level) ==
    CASE level = Error -> "red"
      [] level = Warn -> "yellow"
      [] level = Info -> "green"
      [] level = Debug -> "blue"
      [] level = Trace -> "magenta"

LevelStr(level) ==
    CASE level = Error -> "ERROR"
      [] level = Warn -> "WARN"
      [] level = Info -> "INFO"
      [] level = Debug -> "DEBUG"
      [] level = Trace -> "TRACE"

(* format_args!("[{:<5} - {:<3} - {}:{}] {}", ..), lines 217-224 *)
Format(t, c) == <<LogColor(c.level), LevelStr(c.level), t, c.module, c.line, c.args>>

(* eprintln!("{}", record.args()), line 163: the text of the record *)
topo_log_print(t) ==
    /\ pc[t] = "log_print"
    /\ out' = Append(out, [by |-> t, part |-> "text", text |-> Format(t, call[t])])
    /\ pc' = [pc EXCEPT ![t] = "log_newline"]
    /\ UNCHANGED <<env, LOGGER, lastRead, lock, call, result, emitted, query>>

(* eprintln!("{}", record.args()), line 163: the line terminator *)
topo_log_newline(t) ==
    /\ pc[t] = "log_newline"
    /\ out' = Append(out, [by |-> t, part |-> "nl", text |-> <<>>])
    /\ pc' = [pc EXCEPT ![t] = "log_ret"]
    /\ UNCHANGED <<env, LOGGER, lastRead, lock, call, result, emitted, query>>

(* the end of topo_log, line 232: the guard is dropped *)
topo_log_return_leak(t) ==
    /\ pc[t] = "log_ret"
    /\ pc' = [pc EXCEPT ![t] = "idle"]
    /\ call' = [call EXCEPT ![t] = NoCall]
    /\ UNCHANGED <<env, LOGGER, lastRead, lock, result, out, emitted, query>>

topo_log_return(t) ==
    /\ pc[t] = "log_ret"
    /\ lock' = NoThread
    /\ pc' = [pc EXCEPT ![t] = "idle"]
    /\ call' = [call EXCEPT ![t] = NoCall]
    /\ UNCHANGED <<env, LOGGER, lastRead, result, out, emitted, query>>

Calls ==
    [target : CallTargets, level : CallLevels, module : CallModules,
     line : CallLines, args : CallArgs]

Next ==
    \/ \E v \in EnvValues : SetEnv(v)
    \/ \E t \in Threads : Call_init(t)
    \/ \E t \in Threads : init_lock(t)
    \/ \E t \in Threads : init_install(t)
    \/ \E t \in Threads : init_return(t)
    \/ \E t \in Threads, c \in Calls : Call_topo_log(t, c)
    \/ \E t \in Threads : topo_log_lock(t)
    \/ \E t \in Threads : topo_log_match(t)
    \/ \E t \in Threads : topo_log_print(t)
    \/ \E t \in Threads : topo_log_newline(t)
    \/ \E t \in Threads : topo_log_return(t)

Spec == Init /\ [][Next]_vars

(***************************************************************************)
(* The same system with a fair lock: a thread that has the guard goes on   *)
(* (weak fairness of the steps that hold it), and a thread waiting in      *)
(* lock() gets the mutex if it is free again and again (strong fairness).  *)
(* Nothing obliges the program to call the library or to change TOPO_LOG.  *)
(***************************************************************************)
Fairness ==
    \A t \in Threads :
        /\ SF_vars(init_lock(t))
        /\ SF_vars(topo_log_lock(t))
        /\ WF_vars(init_install(t))
        /\ WF_vars(init_return(t))
        /\ WF_vars(topo_log_match(t))
        /\ WF_vars(topo_log_print(t))
        /\ WF_vars(topo_log_newline(t))
        /\ WF_vars(topo_log_return(t))

FairSpec == Spec /\ Fairness

(***************************************************************************)
(* Helpers of the statements about the parser: the entries of the          *)
(* configuration text, and each entry's target and level as new() sees     *)
(* them.                                                                   *)
(***************************************************************************)
Entries == IF env.res = "Ok" THEN Split(env.val, ",") ELSE <<>>

TargetAt(i) == ParseEntry(Entries[i]).target

LevelAt(i) == ParseEntry(Entries[i]).level

Naming(name) == { i \in 1..Len(Entries) : TargetAt(i) = name }

Last(S) == CHOOSE i \in S : \A j \in S : j <= i

Threshold(self, target) ==
    IF target \in DOMAIN self.filters THEN self.filters[target] ELSE self.all

(***************************************************************************)
(* C1: for every configuration, target and severity s, the enablement      *)
(* decision is true exactly when s is at most the per-target level (the    *)
(* global default when the target has no entry) or at most the global      *)
(* default; so a per-target level below the global default changes         *)
(* nothing, and with a global default of Off a target without an entry is  *)
(* enabled for no severity.                                                *)
(***************************************************************************)
C1_EnablementRule ==
    query # None =>
        LET q == Unwrap(query)
            cfg == Unwrap(LOGGER)
            t == Threshold(cfg, q.target)
        IN  /\ q.enabled <=> (q.level <= t \/ q.level <= cfg.all)
            /\ (q.target \in DOMAIN cfg.filters /\ t <= cfg.all)
                   => (q.enabled <=> q.level <= cfg.all)
            /\ (q.target \notin DOMAIN cfg.filters /\ cfg.all = Off) => ~q.enabled

C1_Witness ==
    /\ query # None
    /\ Unwrap(query).target \in DOMAIN Unwrap(LOGGER).filters
    /\ Unwrap(LOGGER).filters[Unwrap(query).target] < Unwrap(query).level
    /\ Unwrap(query).level <= Unwrap(LOGGER).all
    /\ Unwrap(query).enabled

(***************************************************************************)
(* C7: the level of an entry is decided by its level token, the whole text *)
(* of the entry after the "=" that follows the target: Trace for trace or  *)
(* 5, Debug for debug or 4, Info for info or 3, Warn for warn or 2, Error  *)
(* for error or 1, Info for every other token and for a bare entry.        *)
(***************************************************************************)
ClaimedToken(key) == SubSeq(key, FirstIndex(key, "=") + 1, Len(key))

ClaimedLevel(key) ==
    IF ~Contains(key, "=") THEN Info
    ELSE LET tok == ClaimedToken(key)
         IN  IF tok \in {<<"trace">>, <<"5">>} THEN Trace
             ELSE IF tok \in {<<"debug">>, <<"4">>} THEN Debug
             ELSE IF tok \in {<<"info">>, <<"3">>} THEN Info
             ELSE IF tok \in {<<"warn">>, <<"2">>} THEN Warn
             ELSE IF tok \in {<<"error">>, <<"1">>} THEN Error
             ELSE Info

Assigned(self, target) == IF target = <<"all">> THEN self.all ELSE self.filters[target]

C7_LevelOfWholeToken ==
    LOGGER # None =>
        \A i \in 1..Len(Entries) :
            i = Last(Naming(TargetAt(i)))
                => Assigned(Unwrap(LOGGER), TargetAt(i)) = ClaimedLevel(Entries[i])

(***************************************************************************)
(* C8: after parsing, the global default is the level of the last entry    *)
(* whose target is all (Off when there is none), all is never a key of     *)
(* per_target, the global default enables every target, and per_target     *)
(* holds exactly the other targets named, each with the level of the last  *)
(* entry naming it.                                                        *)
(***************************************************************************)
C8_LastEntryWins ==
    (LOGGER # None /\ env.res = "Ok") =>
        LET cfg == Unwrap(LOGGER)
        IN  /\ cfg.all = IF Naming(<<"all">>) = {} THEN Off
                         ELSE LevelAt(Last(Naming(<<"all">>)))
            /\ <<"all">> \notin DOMAIN cfg.filters
            /\ DOMAIN cfg.filters = { TargetAt(i) : i \in 1..Len(Entries) } \ { <<"all">> }
            /\ \A k \in DOMAIN cfg.filters : cfg.filters[k] = LevelAt(Last(Naming(k)))
            /\ \A target \in QueryTargets, s \in Level :
                   s <= cfg.all => TopoHedralLogger_enabled(cfg, target, s)

C8_Witness ==
    /\ LOGGER # None
    /\ \E i, j \in 1..Len(Entries) :
           i < j /\ TargetAt(i) = <<"all">> /\ TargetAt(j) = <<"all">> /\ LevelAt(i) # LevelAt(j)
    /\ Unwrap(LOGGER).all = Error

(***************************************************************************)
(* C9: in every configuration the parser produces, all keys of per_target  *)
(* are non-empty texts and pairwise distinct.                              *)
(***************************************************************************)
C9_KeysNonEmpty ==
    LOGGER # None =>
        LET keys == DOMAIN Unwrap(LOGGER).filters
        IN  /\ \A k \in keys : k # <<>>
            /\ \A k1, k2 \in keys : k1 # k2 \/ k1 = k2

(***************************************************************************)
(* Helpers of the statements about the global logger.                      *)
(***************************************************************************)
Silent == [all |-> Off, filters |-> EmptyFilters]

ReadAbsent == lastRead \in {Some(NotPresent), Some(NotUnicode)}

InTopoLog(t) == pc[t] \in {"log_lock", "log_match", "log_print", "log_newline", "log_ret"}

TextChunks == { i \in 1..Len(out) : out[i].part = "text" }

ChunksOf(t, part) == { i \in 1..Len(out) : out[i].by = t /\ out[i].part = part }

(***************************************************************************)
(* C2: when the initialize() that last read TOPO_LOG found it absent or    *)
(* not valid text, the installed configuration is global_default = Off     *)
(* with an empty per_target map, and no step writes to the output until    *)
(* the next initialize().                                                  *)
(***************************************************************************)
C2_DefaultSilence ==
    /\ [](ReadAbsent => LOGGER = Some(Silent))
    /\ [][ReadAbsent => out' = out]_vars

C2_Witness ==
    /\ lastRead = Some(NotUnicode)
    /\ \E t \in Threads : pc[t] = "log_ret" /\ call[t].level = Error

(***************************************************************************)
(* C3: while no logger is installed, every step of a log call, whatever    *)
(* its arguments and whatever TOPO_LOG holds, writes nothing, leaves the   *)
(* global logger state absent and leads to the end of the call.            *)
(***************************************************************************)
C3_UninitializedNoOp ==
    [][\A t \in Threads :
          (LOGGER = None /\ InTopoLog(t) /\ pc'[t] # pc[t])
              => /\ out' = out
                 /\ LOGGER' = None
                 /\ pc'[t] \in {"log_match", "log_ret", "idle"}]_vars

C3_Witness ==
    /\ LOGGER = None
    /\ env = Ok(<<"all", "=", "debug">>)
    /\ \E t \in Threads : pc[t] = "log_ret" /\ call[t].level = Error

(***************************************************************************)
(* C4: the installed configuration is always the parse of the value of     *)
(* TOPO_LOG read by the initialize() that most recently held the lock      *)
(* (absent before the first one); only the installing step of an           *)
(* initialize() holding the lock changes it, and at most one initialize()  *)
(* is past the lock at a time.                                             *)
(***************************************************************************)
C4_LastInitAuthoritative ==
    /\ [](LOGGER = IF lastRead = None THEN None
                   ELSE Some(TopoHedralLogger_new(Unwrap(lastRead))))
    /\ [](Cardinality({ t \in Threads : pc[t] \in {"init_new", "init_ret"} }) <= 1)
    /\ [][LOGGER' # LOGGER =>
             \E t \in Threads : pc[t] = "init_new" /\ lock = t /\ pc'[t] = "init_ret"]_vars

C4_Witness ==
    /\ lastRead = Some(Ok(<<"all", "=", "debug">>))
    /\ env = Ok(<<"m", "=", "trace">>)
    /\ LOGGER = Some([all |-> Debug, filters |-> EmptyFilters])
    /\ out # <<>>
    /\ out[1].text[2] = "TRACE"

(***************************************************************************)
(* C5: at most one call is past the lock, and it holds the lock; the       *)
(* output is a sequence of complete lines, each the text and the           *)
(* terminator of one record, except for the line the call inside           *)
(* eprintln! is writing; every call found enabled has written or is about  *)
(* to write exactly one line, so that with every call returned the output  *)
(* holds exactly one complete line per enabled call.                       *)
(***************************************************************************)
C5_AtomicEmission ==
    /\ Cardinality({ t \in Threads : Holding(t) }) <= 1
    /\ \A t \in Threads : Holding(t) => lock = t
    /\ \A i \in 1..Len(out) :
           IF i % 2 = 1
           THEN /\ out[i].part = "text"
                /\ IF i < Len(out)
                   THEN out[i+1].part = "nl" /\ out[i+1].by = out[i].by
                   ELSE pc[out[i].by] = "log_newline"
           ELSE out[i].part = "nl"
    /\ emitted = Cardinality(TextChunks) + Cardinality({ t \in Threads : pc[t] = "log_print" })
    /\ (\A t \in Threads : ~InTopoLog(t)) => Len(out) = 2 * emitted

C5_Witness ==
    /\ \A t \in Threads : pc[t] = "idle"
    /\ Len(out) = 4
    /\ out[1].by # out[3].by
    /\ lastRead # None /\ Unwrap(lastRead) # env

====
